---- MODULE Spec2Model ----
(***************************************************************************)
(* Model of EjercicioPractico3.py: a secondary thread                      *)
(* (contar_errores_en_fichero) scans the lines of a file counting those    *)
(* that contain palabra_clave, while the main thread (main) runs the menu  *)
(* loop, shows the shared counter on demand and, on exit, joins the        *)
(* secondary thread and prints the final result.                           *)
(*                                                                         *)
(* Every action is one atomic step of one thread.  The steps are cut at    *)
(* each access to a shared global (contador_errores, hilo_terminado,       *)
(* semaforo) so that every interleaving of the two threads is explored.    *)
(***************************************************************************)
EXTENDS Integers, Sequences, FiniteSets

\* ------------------------------------------------------------------ bounds
MaxLineas == 2
MaxLargoLinea == 2
MaxLargoClave == 2

\* a progress notice is printed every CadaN lines
CadaN == 1000

Alfabeto == {"E", "x"}

SeqsHasta(S, n) == UNION {[1..k -> S] : k \in 0..n}

Lineas == SeqsHasta(Alfabeto, MaxLargoLinea)
Ficheros == SeqsHasta(Lineas, MaxLineas)
Claves == SeqsHasta(Alfabeto, MaxLargoClave) \ {<< >>}

\* long files, for the progress notices: MaxBloques * CadaN lines, one
\* less and one more, every line the same
MaxBloques == 2

FicherosLargos ==
    {[k \in 1..n |-> <<"E">>] :
        n \in {MaxBloques * CadaN - 1, MaxBloques * CadaN,
               MaxBloques * CadaN + 1}}

\* ------------------------------------------------------------------- state
VARIABLES
    lineas,            \* content of the file, as f.readlines() returns it
    palabra_clave,     \* the keyword searched for
    existe,            \* whether open(nombre_archivo) succeeds
    contador_errores,  \* shared global
    hilo_terminado,    \* shared global
    semaforo,          \* value of threading.Semaphore(1)
    wpc,               \* position of the secondary thread
    i,                 \* number of lines already processed by the loop
    contador_local,    \* private tally of the secondary thread
    cpc,               \* position of the main thread
    estado,            \* last line printed by mostrar_estado_contador, if any
    previo,            \* the line printed by it before that one, if any
    progreso,          \* progress notices printed by the secondary thread
    informe,           \* final results printed by main, in order
    espera,            \* main printed "Esperando..." and called hilo.join()
    escrituras         \* number of assignments made to contador_errores

vars == <<lineas, palabra_clave, existe, contador_errores, hilo_terminado,
          semaforo, wpc, i, contador_local, cpc, estado, previo, progreso,
          informe, espera, escrituras>>

entrada == <<lineas, palabra_clave, existe>>
hiloVars == <<wpc, i, contador_local, progreso>>
salidaVars == <<estado, previo, informe, espera>>

\* variant: the keyword is only looked for at the start of the line
Contiene_SoloPrefijo(clave, linea) ==
    /\ Len(clave) <= Len(linea)
    /\ SubSeq(linea, 1, Len(clave)) = clave

\* `palabra_clave in linea` of Python: substring test
Contiene(clave, linea) ==
    \E k \in 0..(Len(linea) - Len(clave)) :
        SubSeq(linea, k + 1, k + Len(clave)) = clave

Init ==
    /\ lineas \in Ficheros
    /\ palabra_clave \in Claves
    /\ existe \in BOOLEAN
    /\ contador_errores = 0
    /\ hilo_terminado = FALSE
    /\ semaforo = 1
    /\ wpc = "no_iniciado"
    /\ i = 0
    /\ contador_local = 0
    /\ cpc = "inicio"
    /\ estado = << >>
    /\ previo = << >>
    /\ progreso = << >>
    /\ informe = << >>
    /\ espera = FALSE
    /\ escrituras = 0

\* the same program started on a long file
InitLargo ==
    /\ lineas \in FicherosLargos
    /\ palabra_clave = <<"E">>
    /\ existe \in BOOLEAN
    /\ contador_errores = 0
    /\ hilo_terminado = FALSE
    /\ semaforo = 1
    /\ wpc = "no_iniciado"
    /\ i = 0
    /\ contador_local = 0
    /\ cpc = "inicio"
    /\ estado = << >>
    /\ previo = << >>
    /\ progreso = << >>
    /\ informe = << >>
    /\ espera = FALSE
    /\ escrituras = 0

\* ------------------------------------------------- secondary thread (worker)

\* variant: the semaphore is taken before the file is read and kept during
\* the scan
HiloAbrir_ConSemaforo ==
    /\ wpc = "abrir"
    /\ semaforo > 0
    /\ semaforo' = IF existe THEN semaforo - 1 ELSE semaforo
    /\ wpc' = IF existe THEN "bucle" ELSE "except"
    /\ UNCHANGED <<entrada, progreso, contador_errores, hilo_terminado, i,
                   contador_local, cpc, salidaVars, escrituras>>

\* open() and f.readlines(): either the loop starts or the exception is raised
HiloAbrir ==
    /\ wpc = "abrir"
    /\ wpc' = IF existe THEN "bucle" ELSE "except"
    /\ UNCHANGED <<entrada, progreso,
                   contador_errores, hilo_terminado, semaforo, i,
                   contador_local, cpc, salidaVars, escrituras>>

\* variant: the running tally is streamed into the shared counter
HiloLinea_Streaming ==
    /\ wpc = "bucle"
    /\ i < Len(lineas)
    /\ contador_local' = IF Contiene(palabra_clave, lineas[i + 1])
                         THEN contador_local + 1
                         ELSE contador_local
    /\ contador_errores' = contador_local'
    /\ escrituras' = escrituras + 1
    /\ i' = i + 1
    /\ progreso' = IF (i + 1) % CadaN = 0
                   THEN Append(progreso, <<i + 1, Len(lineas)>>)
                   ELSE progreso
    /\ UNCHANGED <<entrada, hilo_terminado, semaforo, wpc, cpc, salidaVars>>

\* variant: the progress test uses the index instead of the line number
HiloLinea_ProgresoDesfasado ==
    /\ wpc = "bucle"
    /\ i < Len(lineas)
    /\ contador_local' = IF Contiene(palabra_clave, lineas[i + 1])
                         THEN contador_local + 1
                         ELSE contador_local
    /\ i' = i + 1
    /\ progreso' = IF i % CadaN = 0
                   THEN Append(progreso, <<i + 1, Len(lineas)>>)
                   ELSE progreso
    /\ UNCHANGED <<entrada, contador_errores, hilo_terminado, semaforo, wpc,
                   cpc, salidaVars, escrituras>>

\* one iteration of `for i, linea in enumerate(lineas)`
HiloLinea ==
    /\ wpc = "bucle"
    /\ i < Len(lineas)
    /\ contador_local' = IF Contiene(palabra_clave, lineas[i + 1])
                         THEN contador_local + 1
                         ELSE contador_local
    /\ i' = i + 1
    /\ progreso' = IF (i + 1) % CadaN = 0
                   THEN Append(progreso, <<i + 1, Len(lineas)>>)
                   ELSE progreso
    /\ UNCHANGED <<entrada, contador_errores, hilo_terminado, semaforo, wpc,
                   cpc, salidaVars, escrituras>>

\* variant: the flag is raised when the scan ends, before the result is
\* published
HiloFinBucle_MarcaAntes ==
    /\ wpc = "bucle"
    /\ i = Len(lineas)
    /\ hilo_terminado' = TRUE
    /\ wpc' = "acquire"
    /\ UNCHANGED <<entrada, progreso,
                   contador_errores, semaforo, i, contador_local,
                   cpc, salidaVars, escrituras>>

\* the loop is exhausted and the `with` block closes the file
HiloFinBucle ==
    /\ wpc = "bucle"
    /\ i = Len(lineas)
    /\ wpc' = "acquire"
    /\ UNCHANGED <<entrada, progreso,
                   contador_errores, hilo_terminado, semaforo, i,
                   contador_local, cpc, salidaVars, escrituras>>

\* variant: the flag is raised on entering the critical section, before the
\* assignment of the result
HiloAcquire_Marca ==
    /\ wpc = "acquire"
    /\ semaforo > 0
    /\ semaforo' = semaforo - 1
    /\ hilo_terminado' = TRUE
    /\ wpc' = "escribir"
    /\ UNCHANGED <<entrada, progreso,
                   contador_errores, i, contador_local, cpc,
                   salidaVars, escrituras>>

\* variant: acquire() that does not wait for the semaphore to be free
HiloAcquire_SinEspera ==
    /\ wpc = "acquire"
    /\ semaforo' = 0
    /\ wpc' = "escribir"
    /\ UNCHANGED <<entrada, progreso,
                   contador_errores, hilo_terminado, i,
                   contador_local, cpc, salidaVars, escrituras>>

\* semaforo.acquire()
HiloAcquire ==
    /\ wpc = "acquire"
    /\ semaforo > 0
    /\ semaforo' = semaforo - 1
    /\ wpc' = "escribir"
    /\ UNCHANGED <<entrada, progreso,
                   contador_errores, hilo_terminado, i,
                   contador_local, cpc, salidaVars, escrituras>>

\* contador_errores = contador_local
HiloEscribir ==
    /\ wpc = "escribir"
    /\ contador_errores' = contador_local
    /\ escrituras' = escrituras + 1
    /\ wpc' = "release"
    /\ UNCHANGED <<entrada, progreso,
                   hilo_terminado, semaforo, i, contador_local, cpc,
                   salidaVars>>

\* variant: the semaphore is not given back
HiloRelease_Olvidado ==
    /\ wpc = "release"
    /\ wpc' = "finally"
    /\ UNCHANGED <<entrada, progreso,
                   contador_errores, hilo_terminado, semaforo, i,
                   contador_local, cpc, salidaVars, escrituras>>

\* semaforo.release() in the inner finally
HiloRelease ==
    /\ wpc = "release"
    /\ semaforo' = semaforo + 1
    /\ wpc' = "finally"
    /\ UNCHANGED <<entrada, progreso,
                   contador_errores, hilo_terminado, i,
                   contador_local, cpc, salidaVars, escrituras>>

\* variant: the flag is only raised on the successful path
HiloExcept_SinMarca ==
    /\ wpc = "except"
    /\ wpc' = "terminado"
    /\ UNCHANGED <<entrada, progreso,
                   contador_errores, hilo_terminado, semaforo, i,
                   contador_local, cpc, salidaVars, escrituras>>

\* except Exception as e: print
HiloExcept ==
    /\ wpc = "except"
    /\ wpc' = "finally"
    /\ UNCHANGED <<entrada, progreso,
                   contador_errores, hilo_terminado, semaforo, i,
                   contador_local, cpc, salidaVars, escrituras>>

\* variant: the thread clears the shared counter when it ends
HiloFinally_Reinicia ==
    /\ wpc = "finally"
    /\ hilo_terminado' = TRUE
    /\ contador_errores' = 0
    /\ wpc' = "terminado"
    /\ UNCHANGED <<entrada, progreso, semaforo, i, contador_local, cpc,
                   salidaVars, escrituras>>

\* outer finally: hilo_terminado = True, then the thread ends
HiloFinally ==
    /\ wpc = "finally"
    /\ hilo_terminado' = TRUE
    /\ wpc' = "terminado"
    /\ UNCHANGED <<entrada, progreso,
                   contador_errores, semaforo, i, contador_local,
                   cpc, salidaVars, escrituras>>

Hilo ==
    \/ HiloAbrir
    \/ HiloLinea
    \/ HiloFinBucle
    \/ HiloAcquire
    \/ HiloEscribir
    \/ HiloRelease
    \/ HiloExcept
    \/ HiloFinally

\* ------------------------------------------------------ main thread (main)

OpcionesSinEstado == {"1", "2", "4", "otra"}

\* hilo = threading.Thread(...); hilo.start()
MainStart ==
    /\ cpc = "inicio"
    /\ wpc = "no_iniciado"
    /\ wpc' = "abrir"
    /\ cpc' = "menu"
    /\ UNCHANGED <<entrada, progreso,
                   contador_errores, hilo_terminado, semaforo, i,
                   contador_local, salidaVars, escrituras>>

\* options 1, 2, 4 and any invalid input
MenuOtra ==
    /\ cpc = "menu"
    /\ \E opcion \in OpcionesSinEstado : cpc' = "sleep"
    /\ UNCHANGED <<entrada, contador_errores, hilo_terminado, semaforo,
                   hiloVars, salidaVars, escrituras>>

\* option 3: call mostrar_estado_contador
MenuEstado ==
    /\ cpc = "menu"
    /\ cpc' = "estado_acquire"
    /\ UNCHANGED <<entrada, contador_errores, hilo_terminado, semaforo,
                   hiloVars, salidaVars, escrituras>>

EstadoAcquire ==
    /\ cpc = "estado_acquire"
    /\ semaforo > 0
    /\ semaforo' = semaforo - 1
    /\ cpc' = "estado_if"
    /\ UNCHANGED <<entrada, contador_errores, hilo_terminado, hiloVars,
                   salidaVars, escrituras>>

\* `if hilo_terminado:` chooses the branch
EstadoIf ==
    /\ cpc = "estado_if"
    /\ cpc' = IF hilo_terminado THEN "estado_fin" ELSE "estado_proc"
    /\ UNCHANGED <<entrada, contador_errores, hilo_terminado, semaforo,
                   hiloVars, salidaVars, escrituras>>

\* variant: showing the counter also clears it
EstadoPrint_Destructivo ==
    /\ cpc \in {"estado_fin", "estado_proc"}
    /\ estado' = <<[terminado |-> (cpc = "estado_fin"),
                    contador |-> contador_errores]>>
    /\ previo' = estado
    /\ contador_errores' = 0
    /\ cpc' = "estado_release"
    /\ UNCHANGED <<entrada, hilo_terminado, semaforo, hiloVars, informe,
                   espera, escrituras>>

\* the print of the chosen branch reads contador_errores
EstadoPrint ==
    /\ cpc \in {"estado_fin", "estado_proc"}
    /\ estado' = <<[terminado |-> (cpc = "estado_fin"),
                    contador |-> contador_errores]>>
    /\ previo' = estado
    /\ cpc' = "estado_release"
    /\ UNCHANGED <<entrada, contador_errores, hilo_terminado, semaforo,
                   hiloVars, informe, espera, escrituras>>

\* variant: leaving the status display clears the flag
EstadoRelease_Reinicia ==
    /\ cpc = "estado_release"
    /\ semaforo' = semaforo + 1
    /\ hilo_terminado' = FALSE
    /\ cpc' = "sleep"
    /\ UNCHANGED <<entrada, contador_errores, hiloVars, salidaVars,
                   escrituras>>

\* variant: the semaphore is released twice
EstadoRelease_Doble ==
    /\ cpc = "estado_release"
    /\ semaforo' = semaforo + 2
    /\ cpc' = "sleep"
    /\ UNCHANGED <<entrada, contador_errores, hilo_terminado, hiloVars,
                   salidaVars, escrituras>>

\* semaforo.release() in the finally of mostrar_estado_contador
EstadoRelease ==
    /\ cpc = "estado_release"
    /\ semaforo' = semaforo + 1
    /\ cpc' = "sleep"
    /\ UNCHANGED <<entrada, contador_errores, hilo_terminado, hiloVars,
                   salidaVars, escrituras>>

\* time.sleep(0.5) at the end of a menu iteration
MainSleep ==
    /\ cpc = "sleep"
    /\ cpc' = "menu"
    /\ UNCHANGED <<entrada, contador_errores, hilo_terminado, semaforo,
                   hiloVars, salidaVars, escrituras>>

\* variant: exit without waiting for the secondary thread
MenuSalir_SinJoin ==
    /\ cpc = "menu"
    /\ cpc' = "final_acquire"
    /\ espera' = FALSE
    /\ UNCHANGED <<entrada, contador_errores, hilo_terminado, semaforo,
                   hiloVars, estado, previo, informe, escrituras>>

\* variant: exit always announces the wait and joins
MenuSalir_SiempreJoin ==
    /\ cpc = "menu"
    /\ cpc' = "join"
    /\ espera' = TRUE
    /\ UNCHANGED <<entrada, contador_errores, hilo_terminado, semaforo,
                   hiloVars, estado, previo, informe, escrituras>>

\* option 5: `if not hilo_terminado:` decides whether to join
MenuSalir ==
    /\ cpc = "menu"
    /\ cpc' = IF ~hilo_terminado THEN "join" ELSE "final_acquire"
    /\ espera' = ~hilo_terminado
    /\ UNCHANGED <<entrada, contador_errores, hilo_terminado, semaforo,
                   hiloVars, estado, previo, informe, escrituras>>

\* variant: join gives up waiting
MainJoin_ConTimeout ==
    /\ cpc = "join"
    /\ cpc' = "final_acquire"
    /\ UNCHANGED <<entrada, contador_errores, hilo_terminado, semaforo,
                   hiloVars, salidaVars, escrituras>>

\* hilo.join() returns once the secondary thread has terminated
MainJoin ==
    /\ cpc = "join"
    /\ wpc = "terminado"
    /\ cpc' = "final_acquire"
    /\ UNCHANGED <<entrada, contador_errores, hilo_terminado, semaforo,
                   hiloVars, salidaVars, escrituras>>

FinalAcquire ==
    /\ cpc = "final_acquire"
    /\ semaforo > 0
    /\ semaforo' = semaforo - 1
    /\ cpc' = "final_print"
    /\ UNCHANGED <<entrada, contador_errores, hilo_terminado, hiloVars,
                   salidaVars, escrituras>>

\* variant: printing the final result also clears the counter
FinalPrint_Consume ==
    /\ cpc = "final_print"
    /\ informe' = Append(informe, contador_errores)
    /\ contador_errores' = 0
    /\ cpc' = "final_release"
    /\ UNCHANGED <<entrada, hilo_terminado, semaforo, hiloVars, estado,
                   previo, espera, escrituras>>

FinalPrint ==
    /\ cpc = "final_print"
    /\ informe' = Append(informe, contador_errores)
    /\ cpc' = "final_release"
    /\ UNCHANGED <<entrada, contador_errores, hilo_terminado, semaforo,
                   hiloVars, estado, previo, espera, escrituras>>

\* variant: the menu loop goes on after the final result
FinalRelease_SinBreak ==
    /\ cpc = "final_release"
    /\ semaforo' = semaforo + 1
    /\ cpc' = "menu"
    /\ UNCHANGED <<entrada, contador_errores, hilo_terminado, hiloVars,
                   salidaVars, escrituras>>

FinalRelease ==
    /\ cpc = "final_release"
    /\ semaforo' = semaforo + 1
    /\ cpc' = "terminado"
    /\ UNCHANGED <<entrada, contador_errores, hilo_terminado, hiloVars,
                   salidaVars, escrituras>>

Main ==
    \/ MainStart
    \/ MenuOtra
    \/ MenuEstado
    \/ EstadoAcquire
    \/ EstadoIf
    \/ EstadoPrint
    \/ EstadoRelease
    \/ MainSleep
    \/ MenuSalir
    \/ MainJoin
    \/ FinalAcquire
    \/ FinalPrint
    \/ FinalRelease

Next == Hilo \/ Main

Spec == Init /\ [][Next]_vars

SpecLargo == InitLargo /\ [][Next]_vars

\* Steps of the main thread that do not wait for the user
MainInterno ==
    \/ MainStart
    \/ EstadoAcquire
    \/ EstadoIf
    \/ EstadoPrint
    \/ EstadoRelease
    \/ MainSleep
    \/ MainJoin
    \/ FinalAcquire
    \/ FinalPrint
    \/ FinalRelease

\* Both threads are scheduled fairly; a thread waiting in acquire() gets the
\* semaphore if it is released again and again.  The user is never forced to
\* choose a menu option.
FairSpec ==
    /\ Init
    /\ [][Next]_vars
    /\ WF_vars(Hilo)
    /\ SF_vars(HiloAcquire)
    /\ WF_vars(MainInterno)

\* ------------------------------------------------------------- properties

\* clave occurs in linea: linea is some text, then clave, then some text
EsSubcadena(clave, linea) ==
    \E a, b \in SeqsHasta(Alfabeto, Len(linea)) : linea = a \o clave \o b

\* number of lines of the file that contain the keyword, counted directly
Tally == Cardinality({k \in 1..Len(lineas) :
                         EsSubcadena(palabra_clave, lineas[k])})

EnSeccionHilo == wpc \in {"escribir", "release"}
EnSeccionMain == cpc \in {"estado_if", "estado_fin", "estado_proc",
                          "estado_release", "final_print", "final_release"}

Saliendo == {"join", "final_acquire", "final_print", "final_release"}
AntesDeFinally == {"no_iniciado", "abrir", "bucle", "acquire", "escribir",
                   "release", "except"}
AntesDeEscribir == {"no_iniciado", "abrir", "bucle", "acquire", "except"}

\* C1: the final report is printed only when hilo_terminado is true and the
\* secondary thread has ended; past the exit command's test (and join) the
\* flag is already true, and on a successful scan the reported value is the
\* tally of the complete scan, never a partial or the initial one.
C1_InformeTrasTerminar ==
    /\ cpc \in {"final_acquire", "final_print", "final_release", "terminado"}
          => hilo_terminado /\ wpc = "terminado"
    /\ informe # << >> =>
          /\ hilo_terminado
          /\ existe => i = Len(lineas) /\ informe[1] = contador_local

C1_Witness ==
    /\ informe # << >>
    /\ espera
    /\ existe
    /\ informe[1] = 2

\* C2: whenever hilo_terminado is true after a successful scan, the shared
\* counter already holds the final local tally, and a status display that
\* took the "finished" branch printed that final tally.
C2_ContadorAntesQueBandera ==
    /\ hilo_terminado /\ existe =>
          /\ i = Len(lineas)
          /\ contador_errores = contador_local
    /\ estado # << >> /\ estado[1].terminado /\ existe =>
          estado[1].contador = contador_local
    /\ informe # << >> /\ existe => informe[1] = contador_local

C2_Witness ==
    /\ cpc = "estado_release"
    /\ estado # << >>
    /\ estado[1].terminado
    /\ existe
    /\ estado[1].contador > 0

\* C3: when the secondary thread has run to successful completion, the
\* shared counter, and the final report, equal the number of lines that
\* contain the keyword: 0 for the empty file and when no line contains it.
C3_ConteoCorrecto ==
    /\ wpc = "terminado" /\ existe => contador_errores = Tally
    /\ informe # << >> /\ existe => informe[1] = Tally
    /\ wpc = "terminado" /\ existe /\ lineas = << >> => contador_errores = 0

C3_Witness ==
    /\ cpc = "terminado"
    /\ existe
    /\ informe = <<1>>
    /\ Len(lineas) = 2

\* C4: when opening or reading the file fails, the shared counter is never
\* written and stays 0, the thread still ends with hilo_terminado true, and
\* the final report of main states 0.
C4_FalloSeguro ==
    ~existe =>
       /\ contador_errores = 0
       /\ escrituras = 0
       /\ wpc = "terminado" => hilo_terminado
       /\ informe # << >> => informe = <<0>>
       /\ cpc = "terminado" => informe = <<0>>

C4_Witness ==
    /\ ~existe
    /\ cpc = "terminado"
    /\ hilo_terminado
    /\ informe = <<0>>

\* C5: at most one thread is between semaforo.acquire() and
\* semaforo.release(); the semaphore is 0 exactly while a thread is there.
C5_ExclusionMutua ==
    /\ ~(EnSeccionHilo /\ EnSeccionMain)
    /\ semaforo \in {0, 1}
    /\ semaforo = 0 <=> (EnSeccionHilo \/ EnSeccionMain)

C5_Witness ==
    /\ EnSeccionMain
    /\ wpc = "acquire"

\* C6: every write of contador_errores or hilo_terminado is made by a thread
\* that holds the semaphore, and main tests hilo_terminado on exit while
\* holding it.
C6_TodoBajoSemaforo ==
    [][/\ (contador_errores' # contador_errores
             \/ hilo_terminado' # hilo_terminado) => EnSeccionHilo
       /\ (cpc = "menu" /\ cpc' \in Saliendo) => EnSeccionMain]_vars

\* C7: under fair scheduling hilo_terminado eventually becomes true, and
\* once the exit command has been given main eventually prints the final
\* report and terminates.
C7_Terminacion ==
    /\ <>hilo_terminado
    /\ (cpc \in Saliendo) ~> (cpc = "terminado" /\ Len(informe) = 1)

C7_Witness ==
    /\ cpc = "terminado"
    /\ espera
    /\ Len(informe) = 1

\* C8: hilo_terminado starts false, is false in every state before the outer
\* finally of the secondary thread, is true once the thread has ended, and
\* no step of either thread sets it back to false.
C8_BanderaUnSentido ==
    /\ ~hilo_terminado
    /\ [](wpc \in AntesDeFinally \cup {"finally"} => ~hilo_terminado)
    /\ [](wpc = "terminado" => hilo_terminado)
    /\ [][hilo_terminado => hilo_terminado']_vars

C8_Witness ==
    /\ hilo_terminado
    /\ cpc = "sleep"
    /\ estado # << >>
    /\ estado[1].terminado

\* C9: in every step taken from a state where hilo_terminado is true,
\* contador_errores keeps its value.
C9_ContadorCongelado ==
    [][hilo_terminado => contador_errores' = contador_errores]_vars

C9_Witness ==
    /\ hilo_terminado
    /\ contador_errores = 2
    /\ cpc = "estado_release"

\* C10: the shared counter is assigned at most once, exactly once on a
\* successful scan, and only after the last line: while the thread is still
\* iterating the shared counter is 0 whatever the private tally is.
C10_UnaSolaEscritura ==
    /\ escrituras <= 1
    /\ wpc \in AntesDeEscribir => contador_errores = 0 /\ escrituras = 0
    /\ wpc \in {"release", "finally", "terminado"} /\ existe =>
          escrituras = 1 /\ i = Len(lineas)

C10_Witness ==
    /\ wpc = "bucle"
    /\ i < Len(lineas)
    /\ contador_local > 0
    /\ contador_errores = 0

EnEstado == {"estado_acquire", "estado_if", "estado_fin", "estado_proc",
             "estado_release"}
Leyendo == EnEstado \cup {"final_acquire", "final_print", "final_release"}

\* C11: of two successive status displays, and of a status display and the
\* final report, the later one never shows a smaller counter, and a display
\* that said "finished" is never followed by one that says "processing".
C11_LecturasNoRetroceden ==
    /\ previo # << >> =>
          /\ estado # << >>
          /\ estado[1].contador >= previo[1].contador
          /\ previo[1].terminado => estado[1].terminado
    /\ estado # << >> /\ informe # << >> =>
          informe[1] >= estado[1].contador

C11_Witness ==
    /\ previo # << >>
    /\ ~previo[1].terminado
    /\ previo[1].contador = 2
    /\ estado[1].terminado
    /\ estado[1].contador = 2

\* C12: once a status display has said "finished", every later display is
\* identical to it and the final report states the same counter; the steps
\* of a display and of the final report leave contador_errores and
\* hilo_terminado as they were.
C12_LecturaIdempotente ==
    /\ [](previo # << >> /\ previo[1].terminado => estado = previo)
    /\ [](estado # << >> /\ estado[1].terminado /\ informe # << >> =>
             informe[1] = estado[1].contador)
    /\ [][(cpc \in Leyendo /\ cpc' # cpc)
            => (contador_errores' = contador_errores
                /\ hilo_terminado' = hilo_terminado)]_vars

C12_Witness ==
    /\ previo # << >>
    /\ previo[1].terminado
    /\ previo[1].contador = 1
    /\ estado = previo
    /\ informe = <<1>>

\* state of the controller, from the position of the main thread
Fase ==
    CASE cpc = "inicio" -> "Idle"
      [] cpc \in Saliendo -> "Draining"
      [] cpc = "terminado" -> "Terminated"
      [] OTHER -> "Running"

Transiciones ==
    {<<"Idle", "Idle">>, <<"Idle", "Running">>, <<"Running", "Running">>,
     <<"Running", "Draining">>, <<"Draining", "Draining">>,
     <<"Draining", "Terminated">>, <<"Terminated", "Terminated">>}

\* C13: main goes Idle -> Running -> Draining -> Terminated and makes no
\* other transition; it becomes Running in the step that launches the one
\* secondary thread, leaves Running only from the menu prompt (option 5),
\* has printed exactly one final report when it becomes Terminated and none
\* before exit, and takes no step once Terminated.
C13_MaquinaDeEstados ==
    /\ [][(<<Fase, Fase'>> \in Transiciones)]_vars
    /\ [][(wpc = "no_iniciado" /\ wpc' # wpc)
            <=> (Fase = "Idle" /\ Fase' = "Running")]_vars
    /\ [][(Fase = "Running" /\ Fase' = "Draining") => cpc = "menu"]_vars
    /\ [][Fase = "Terminated" => (cpc' = cpc /\ informe' = informe)]_vars
    /\ [](Fase \in {"Idle", "Running"} => informe = << >>)
    /\ [](Fase = "Terminated" => Len(informe) = 1)
    /\ [](Len(informe) <= 1)

C13_Witness ==
    /\ Fase = "Terminated"
    /\ Len(informe) = 1
    /\ previo # << >>
    /\ espera

\* C14: no step of the main thread after the launch changes
\* contador_errores, hilo_terminado or the progress of the secondary thread,
\* and every change of the two shared fields is a step of the secondary
\* thread.
C14_MainSoloLee ==
    /\ [][(cpc' # cpc /\ cpc # "inicio")
            => (/\ contador_errores' = contador_errores
                /\ hilo_terminado' = hilo_terminado
                /\ escrituras' = escrituras
                /\ hiloVars' = hiloVars)]_vars
    /\ [][(contador_errores' # contador_errores
             \/ hilo_terminado' # hilo_terminado)
            => (wpc' # wpc /\ cpc' = cpc)]_vars

C14_Witness ==
    /\ cpc = "terminado"
    /\ previo # << >>
    /\ wpc = "terminado"
    /\ contador_errores = 2
    /\ informe = <<2>>

HiloSuspendido == wpc \in {"abrir", "bucle"}
MainSuspendido == cpc \in {"menu", "sleep", "join"}

\* C15: while the secondary thread opens, reads or iterates over the file
\* the semaphore is taken only if main is inside a read; while main waits
\* for input, sleeps or is blocked in join it is taken only if the secondary
\* thread is publishing its result; so a status read asked for during the
\* scan finds the semaphore free.
C15_SinSemaforoAlSuspender ==
    /\ HiloSuspendido /\ ~EnSeccionMain => semaforo = 1
    /\ MainSuspendido /\ ~EnSeccionHilo => semaforo = 1
    /\ HiloSuspendido /\ MainSuspendido => semaforo = 1
    /\ HiloSuspendido /\ cpc = "estado_acquire" => ENABLED EstadoAcquire

C15_Witness ==
    /\ wpc = "bucle"
    /\ i < Len(lineas)
    /\ i > 0
    /\ cpc = "estado_proc"

\* C16: on option 5 main announces the wait and calls join exactly when
\* hilo_terminado is false at that moment; when it is true main goes straight
\* to the final report.
C16_JoinSoloSiNoTerminado ==
    /\ [][(cpc = "menu" /\ cpc' \in Saliendo)
            => (/\ cpc' = "join" <=> ~hilo_terminado
                /\ cpc' = "final_acquire" <=> hilo_terminado
                /\ espera' = ~hilo_terminado)]_vars
    /\ [](cpc = "join" => espera)
    /\ [][espera' = espera \/ (cpc = "menu" /\ cpc' = "join")]_vars

C16_Witness ==
    /\ cpc = "final_acquire"
    /\ ~espera
    /\ hilo_terminado
    /\ estado # << >>

\* C17: after i lines of a file of T lines the notices printed are exactly
\* those of lines CadaN, 2 CadaN, ... up to i, in that order, each carrying
\* the line number and T, so floor(T / CadaN) notices at the end of the scan
\* and none when the file cannot be read; the step that prints a notice
\* leaves semaforo, contador_errores and hilo_terminado alone.
C17_AvisosDeProgreso ==
    /\ [](progreso = [k \in 1..(i \div CadaN) |->
                         <<k * CadaN, Len(lineas)>>])
    /\ [](wpc = "terminado" /\ existe =>
             Len(progreso) = Len(lineas) \div CadaN)
    /\ [](~existe => progreso = << >>)
    /\ [][progreso' # progreso
            => (/\ semaforo' = semaforo
                /\ contador_errores' = contador_errores
                /\ hilo_terminado' = hilo_terminado)]_vars

C17_Witness ==
    /\ wpc = "terminado"
    /\ Len(lineas) = MaxBloques * CadaN + 1
    /\ Len(progreso) = MaxBloques
    /\ progreso[MaxBloques] = <<MaxBloques * CadaN, MaxBloques * CadaN + 1>>
    /\ cpc = "terminado"

HiloAdquiere == wpc = "acquire" /\ wpc' = "escribir"
MainAdquiere == cpc \in {"estado_acquire", "final_acquire"} /\ cpc' # cpc
HiloLibera == wpc = "release" /\ wpc' # wpc
MainLibera == cpc \in {"estado_release", "final_release"} /\ cpc' # cpc

\* C18: the semaphore is 1 at the start and always 0 or 1; it goes down only
\* from 1 to 0 in an acquire step and up only in the release step of the
\* thread that is inside its section, and each such step moves it; it is 1
\* whenever no thread is inside a section; a thread that waits in acquire or
\* is inside its section eventually gets past its release.
C18_SemaforoBinario ==
    /\ semaforo = 1
    /\ [](semaforo \in {0, 1})
    /\ [][semaforo' < semaforo
            => (semaforo = 1 /\ semaforo' = 0
                /\ (HiloAdquiere \/ MainAdquiere))]_vars
    /\ [][semaforo' > semaforo
            => ((EnSeccionHilo /\ HiloLibera)
                \/ (EnSeccionMain /\ MainLibera))]_vars
    /\ [][(HiloAdquiere \/ MainAdquiere) => semaforo' = semaforo - 1]_vars
    /\ [][(HiloLibera \/ MainLibera) => semaforo' = semaforo + 1]_vars
    /\ [](~EnSeccionHilo /\ ~EnSeccionMain => semaforo = 1)
    /\ (wpc = "acquire" \/ EnSeccionHilo) ~> (wpc = "finally")
    /\ (cpc \in EnEstado) ~> (cpc = "sleep")
    /\ (cpc \in {"final_acquire", "final_print", "final_release"})
          ~> (cpc = "terminado")

C18_Witness ==
    /\ cpc = "terminado"
    /\ wpc = "terminado"
    /\ existe
    /\ previo # << >>
    /\ semaforo = 1

\* what the final report must state for the given file, keyword and path
InformeEsperado == IF existe THEN Tally ELSE 0

\* C19: the final tally printed is a function of the file, the keyword and
\* whether the file can be read: whatever the interleaving and the menu
\* commands given before exit, a run that prints a final report prints
\* exactly that one value.
C19_InformeDeterminista ==
    /\ informe # << >> => informe = <<InformeEsperado>>
    /\ cpc = "terminado" => informe = <<InformeEsperado>>

C19_Witness ==
    /\ cpc = "terminado"
    /\ espera
    /\ wpc = "terminado"
    /\ informe = <<2>>
    /\ estado = << >>

====
